---- MODULE Spec2Model ----
(***************************************************************************)
(* A model of package recolour (src/recolour/generate.go): the colour      *)
(* normalizer, the colour catalog (map + HSV-sorted list with index         *)
(* swapping), the index encoder, the palette layout and the two output      *)
(* files written by GenerateFromImage.                                      *)
(*                                                                          *)
(* float64 values are modelled as exact rationals [n, d] (d > 0).  For      *)
(* 8-bit channels the rounding error of the float computations is many      *)
(* orders of magnitude below EPSILON and below the distance of two distinct *)
(* values, so floatEquals and < decide as on the rationals.                 *)
(* Go slices are modelled as sequences: element k of a slice is s[k+1].     *)
(***************************************************************************)
EXTENDS Integers, Sequences, FiniteSets, TLC

\* ---------------------------------------------------------------- bounds
\* Small images: every image of at most MaxPixels pixels over SourcePixels.
MaxPixels == 4
\* Catalogs of at most MaxPermN colours are iterated in every order.
MaxPermN == 4
\* Width of the one-row image with more than 256 distinct colours.
BigN == 257
\* Width of the one-row image with more than 65536 distinct colours.
HugeN == 65537

\* ------------------------------------------------------- program constants
\* len(colourMap) > 65536
Capacity == 65536
\* EPSILON = 0.00000001 = 1 / EpsilonInv
EpsilonInv == 100000000

VARIABLES
    img,                \* the source image: [W, H, pix], bounds (0,0)-(W,H)
    outPaletteTexture,  \* the palette output path ("" = none supplied)
    pc,                 \* position in GenerateFromImage
    y,                  \* row counter of the two image traversals
    colourMap,          \* map[color.RGBA]*UniqueColour
    colourList,         \* UniqueColourList: the pointers, as map keys
    i, j,               \* loop counters of the insertion sort
    outSprite,          \* the index image buffer (NRGBA)
    spriteFile,         \* state of the file at outImagePath
    numColours,         \* argument of getPaletteImageDimensions
    width, height,      \* its results
    outPalette,         \* the palette image buffer (RGBA)
    palette,            \* the slice built for the return value
    paletteFile,        \* state of the file at outPaletteTexture
    ret, err            \* the values returned

vars == <<img, outPaletteTexture, pc, y, colourMap, colourList,
          i, j, outSprite, spriteFile, numColours, width, height, outPalette,
          palette, paletteFile, ret, err>>

\* ------------------------------------------------------------ colour types
NRGBA(r, g, b, a) == [R |-> r, G |-> g, B |-> b, A |-> a]

ZeroPixel == NRGBA(0, 0, 0, 0)

\* color.NRGBA.RGBA(): 16-bit, alpha-premultiplied samples.
SampleRGBA(c) ==
    [r |-> (c.R * 257 * c.A) \div 255,
     g |-> (c.G * 257 * c.A) \div 255,
     b |-> (c.B * 257 * c.A) \div 255,
     a |-> c.A * 257]

\* uint8((float64(v) / 65535.0) * 255.0): truncation toward zero.
Scale8(v) == ((v * 255) \div 65535) % 256

colourTo8BitRGBA(c) ==
    LET s == SampleRGBA(c)
    IN  NRGBA(Scale8(s.r), Scale8(s.g), Scale8(s.b), Scale8(s.a))

colourTo8BitPaletteRGBA(c) ==
    [colourTo8BitRGBA(c) EXCEPT !.A = 255]

\* -------------------------------------------------------------------- HSV
Rat(n, d) == [n |-> n, d |-> d]

Min3(a, b, c) == IF a <= b /\ a <= c THEN a ELSE IF b <= c THEN b ELSE c

Max3(a, b, c) == IF a >= b /\ a >= c THEN a ELSE IF b >= c THEN b ELSE c

\* colorful.Color{R/255, G/255, B/255}.Hsv(): h in degrees, s and v in [0,1].
\* The three tests on v are sequential ifs: the last one that matches wins.
Hsv(p) ==
    LET mn == Min3(p.R, p.G, p.B)
        mx == Max3(p.R, p.G, p.B)
        C  == mx - mn
        s  == IF mx # 0 THEN Rat(C, mx) ELSE Rat(0, 1)
        h6 == IF mx = p.B THEN (p.R - p.G) + 4 * C
              ELSE IF mx = p.G THEN (p.B - p.R) + 2 * C
              ELSE p.G - p.B
        h  == IF mn = mx THEN Rat(0, 1)
              ELSE IF h6 < 0 THEN Rat(60 * h6 + 360 * C, C)
              ELSE Rat(60 * h6, C)
    IN  [H |-> h, S |-> s, V |-> Rat(mx, 255)]

\* a - b < EPSILON, without leaving the 32-bit integers.
DiffBelowEpsilon(a, b) ==
    (a.n * b.d - b.n * a.d) <= ((a.d * b.d - 1) \div EpsilonInv)

floatEquals(a, b) == DiffBelowEpsilon(a, b) /\ DiffBelowEpsilon(b, a)

floatLess(a, b) == a.n * b.d < b.n * a.d

\* &UniqueColour{p, h, s, v, 0}
NewUniqueColour(p) ==
    LET hsv == Hsv(p)
    IN  [RGBA |-> p, H |-> hsv.H, S |-> hsv.S, V |-> hsv.V, Index |-> 0]

\* ----------------------------------------------------------- source images
\* The pixel positions of a w x h image, row-major as in image.NRGBA.Pix:
\* pixel (x, y) is position y * w + x.
Positions(w, h) == 0 .. w * h - 1

\* The pixel a gradient image computes for a position: pairwise distinct
\* opaque colours.
GradientPixel(pos) ==
    NRGBA(pos % 256, (pos \div 256) % 256, pos \div 65536, 255)

\* img.At of the pixel at a position
PixelAt(im, pos) ==
    IF im.kind = "gradient" THEN GradientPixel(pos) ELSE im.pix[pos]

\* img.At(x, y)
At(im, x, yy) == PixelAt(im, yy * im.W + x)

\* Opaque red, fully transparent red, half transparent red, opaque blue.
SourcePixels ==
    {NRGBA(255, 0, 0, 255), NRGBA(255, 0, 0, 0), NRGBA(255, 0, 0, 128),
     NRGBA(0, 0, 255, 255)}

SmallSizes ==
    {sz \in (1 .. MaxPixels) \X (1 .. MaxPixels) : sz[1] * sz[2] <= MaxPixels}

\* Images that store their pixels (*image.NRGBA).
SmallImages ==
    UNION {{[kind |-> "pixels", W |-> sz[1], H |-> sz[2], pix |-> f] :
                f \in [Positions(sz[1], sz[2]) -> SourcePixels]} :
           sz \in SmallSizes}

\* A one-row image.Image of n pairwise distinct opaque colours, whose At
\* computes the pixel.
Gradient(n) == [kind |-> "gradient", W |-> n, H |-> 1, pix |-> <<>>]

Images == SmallImages \cup {Gradient(BigN), Gradient(HugeN)}

\* ---------------------------------------------------------------- catalog
EmptyMap == [p \in {} |-> 0]

MapLen(m) == Cardinality(DOMAIN m)

\* A row scan that keys the map by the colour with its own alpha.
ScanRowColoursKeepAlpha(im, yy) ==
    {colourTo8BitRGBA(At(im, x, yy)) : x \in 0 .. im.W - 1}

\* The keys of one row: p := colourTo8BitPaletteRGBA(img.At(x, y)) for
\* x := bounds.Min.X; x < bounds.Max.X.
ScanRowColours(im, yy) ==
    {colourTo8BitPaletteRGBA(At(im, x, yy)) : x \in 0 .. im.W - 1}

\* if _, ok := colourMap[p]; !ok { colourMap[p] = col }
InsertMissing(m, ps) ==
    [p \in (DOMAIN m) \cup ps |->
        IF p \in DOMAIN m THEN m[p] ELSE NewUniqueColour(p)]

\* A capacity test against what one index byte holds.
TooManyColoursForOneByte(m) == MapLen(m) > 256

\* len(colourMap) > 65536
TooManyColours(m) == MapLen(m) > Capacity

\* The colours of the image in the order the scan first meets them.
FirstSeen(im) ==
    LET c == [n \in 0 .. im.W * im.H - 1 |->
                 colourTo8BitPaletteRGBA(At(im, n % im.W, n \div im.W))]
        first == {n \in DOMAIN c : \A k \in 0 .. n - 1 : c[k] # c[n]}
        rank == [n \in first |-> Cardinality({q \in first : q < n})]
    IN  [k \in 1 .. Cardinality(first) |->
            c[CHOOSE n \in first : rank[n] = k - 1]]

RotateLast(s) ==
    [k \in 1 .. Len(s) |-> IF k = 1 THEN s[Len(s)] ELSE s[k - 1]]

\* for _, c := range colourMap: Go leaves the iteration order unspecified.
\* Small maps are iterated in every order, larger ones in two orders.
IterationOrders(im, m) ==
    IF MapLen(m) <= MaxPermN
    THEN {s \in [1 .. MapLen(m) -> DOMAIN m] :
             \A a, b \in 1 .. MapLen(m) : a # b => s[a] # s[b]}
    ELSE LET fs == FirstSeen(im) IN {fs, RotateLast(fs)}

\* c.Index = nextIndex; nextIndex++ (uint16)
AssignIndices(m, order) ==
    [p \in DOMAIN m |->
        [m[p] EXCEPT !.Index =
            ((CHOOSE k \in 1 .. Len(order) : order[k] = p) - 1) % 65536]]

\* A comparator without the saturation and value tie-breaks.
LessHueOnly(m, l, a, b) == floatLess(m[l[a + 1]].H, m[l[b + 1]].H)

\* UniqueColourList.Less(i, j), on the list l of pointers into m
Less(m, l, a, b) ==
    LET ca == m[l[a + 1]]
        cb == m[l[b + 1]]
    IN  IF floatEquals(ca.H, cb.H)
        THEN IF floatEquals(ca.S, cb.S)
             THEN floatLess(ca.V, cb.V)
             ELSE floatLess(ca.S, cb.S)
        ELSE floatLess(ca.H, cb.H)

\* A Swap that exchanges the pointers and leaves the Index fields alone.
SwapPointersOnly(m, l, a, b) ==
    [m |-> m,
     l |-> [l EXCEPT ![a + 1] = l[b + 1], ![b + 1] = l[a + 1]]]

\* UniqueColourList.Swap(i, j): exchange the Index fields, then the pointers
Swap(m, l, a, b) ==
    [m |-> [m EXCEPT ![l[a + 1]].Index = m[l[b + 1]].Index,
                     ![l[b + 1]].Index = m[l[a + 1]].Index],
     l |-> [l EXCEPT ![a + 1] = l[b + 1], ![b + 1] = l[a + 1]]]

\* sort.Sort(colourList), as the library's insertionSort(data, 0, n) from
\* the loop position (ii, jj) on: what the library runs for n <= 12; for
\* longer lists it reaches the same Less and Swap through other schedules.
RECURSIVE RunSort(_, _, _, _)
RunSort(m, l, ii, jj) ==
    IF ii >= Len(l) THEN [m |-> m, l |-> l]
    ELSE IF jj > 0 /\ Less(m, l, jj, jj - 1)
         THEN LET s == Swap(m, l, jj, jj - 1)
              IN  RunSort(s.m, s.l, ii, jj - 1)
         ELSE RunSort(m, l, ii + 1, ii + 1)

\* --------------------------------------------------------- palette layout
RECURSIVE BitOr(_, _)
BitOr(a, b) ==
    IF a = 0 THEN b
    ELSE IF b = 0 THEN a
    ELSE (IF a % 2 = 1 \/ b % 2 = 1 THEN 1 ELSE 0)
         + 2 * BitOr(a \div 2, b \div 2)

\* v |= v >> k
OrShift(v, k) == BitOr(v, v \div (2 ^ k))

\* The doubling closure without the leading v--.
nextPowerOfTwoNoDecrement(v) ==
    OrShift(OrShift(OrShift(OrShift(OrShift(v, 1), 2), 4), 8), 16) + 1

nextPowerOfTwo(v) ==
    OrShift(OrShift(OrShift(OrShift(OrShift(v - 1, 1), 2), 4), 8), 16) + 1

\* math.Ceil(float64(numColours) / 256.0)
CeilDiv256(n) == (n + 255) \div 256

getPaletteImageDimensions(n) ==
    IF n > 256 THEN [width |-> 256, height |-> nextPowerOfTwo(CeilDiv256(n))]
    ELSE IF n <= 128 THEN [width |-> nextPowerOfTwo(n), height |-> 1]
    ELSE [width |-> 256, height |-> 1]

\* ----------------------------------------------------------- index encoder
\* color.NRGBAModel.Convert(color.RGBA{...}), what outSprite.Set applies:
\* r = (r * 0xffff) / a on the 16-bit samples R*257 and A*257, which is
\* (R * 0xffff) / A.
NRGBAModelConvert(c) ==
    IF c.A = 255 THEN NRGBA(c.R, c.G, c.B, 255)
    ELSE IF c.A = 0 THEN ZeroPixel
    ELSE NRGBA((((c.R * 65535) \div c.A) \div 256) % 256,
               (((c.G * 65535) \div c.A) \div 256) % 256,
               (((c.B * 65535) \div c.A) \div 256) % 256,
               c.A)

\* red := uint8(col.Index & 0x0000FFFF)
RedChannel(index) == (index % 65536) % 256

\* blue := uint8(col.Index >> 16), on the uint16 Index
BlueChannel(index) == ((index % 65536) \div 65536) % 256

\* The alpha handed to outSprite.Set: inpix.A
SpriteAlpha(c) == colourTo8BitPaletteRGBA(c).A

\* outSprite.Set(x, y, color.RGBA{red, blue, 0, inpix.A})
EncodePixel(m, c) ==
    LET col == m[colourTo8BitPaletteRGBA(c)]
    IN  NRGBAModelConvert(
            NRGBA(RedChannel(col.Index), BlueChannel(col.Index), 0,
                  SpriteAlpha(c)))

EncodeRowPixels(m, im, yy, sprite) ==
    [pos \in DOMAIN sprite |->
        IF pos \div im.W = yy
           /\ colourTo8BitPaletteRGBA(PixelAt(im, pos)) \in DOMAIN m
        THEN EncodePixel(m, PixelAt(im, pos))
        ELSE sprite[pos]]

\* -------------------------------------------------------- palette building
\* palette = append(palette, colourList[n].RGBA) for every n
PaletteSlice(m, l) == [k \in 1 .. Len(l) |-> m[l[k]].RGBA]

\* outPalette.SetRGBA(x, y, colourList[n].RGBA) with x, y stepping row-major:
\* entry n lands on (n % w, n / w), which is element n of the pixels
PaletteImage(m, l, w, h) ==
    [n \in Positions(w, h) |->
        IF n < Len(l) THEN m[l[n + 1]].RGBA ELSE ZeroPixel]

NilResult == [nil |-> TRUE, slice |-> <<>>]

Result(s) == [nil |-> FALSE, slice |-> s]

\* ------------------------------------------------------------------- Init
\* The locals of GenerateFromImage before it runs and after it has returned.
Blank ==
    /\ y = 0
    /\ colourMap = EmptyMap
    /\ colourList = <<>>
    /\ i = 0
    /\ j = 0
    /\ outSprite = <<>>
    /\ numColours = 0
    /\ width = 0
    /\ height = 0
    /\ outPalette = <<>>
    /\ palette = <<>>

Init ==
    /\ img \in Images
    /\ outPaletteTexture \in {"", "palette.png"}
    /\ pc = "scan"
    /\ spriteFile = "untouched"
    /\ paletteFile = "untouched"
    /\ ret = NilResult
    /\ err = ""
    /\ Blank

\* ---------------------------------------------------------------- actions
\* return r, e: the call ends and its locals are gone.
Return(r, e) ==
    /\ pc' = "done"
    /\ ret' = r
    /\ err' = e
    /\ y' = 0
    /\ colourMap' = EmptyMap
    /\ colourList' = <<>>
    /\ i' = 0
    /\ j' = 0
    /\ outSprite' = <<>>
    /\ numColours' = 0
    /\ width' = 0
    /\ height' = 0
    /\ outPalette' = <<>>
    /\ palette' = <<>>

\* One row of the catalog pass, another row following.
ScanRow ==
    /\ pc = "scan"
    /\ y + 1 < img.H
    /\ colourMap' = InsertMissing(colourMap, ScanRowColours(img, y))
    /\ y' = y + 1
    /\ UNCHANGED <<img, outPaletteTexture, pc, colourList, i, j, outSprite,
                   spriteFile, numColours, width, height, outPalette, palette,
                   paletteFile, ret, err>>

\* A capacity error raised only after the index image file was opened.
CapacityExceededAfterOpen ==
    /\ pc = "scan"
    /\ y + 1 >= img.H
    /\ TooManyColours(InsertMissing(colourMap, ScanRowColours(img, y)))
    /\ spriteFile' = "truncated"
    /\ Return(NilResult, "capacity")
    /\ UNCHANGED <<img, outPaletteTexture, paletteFile>>

\* The last row of the catalog pass, then len(colourMap) > 65536:
\* return nil, fmt.Errorf("Sorry, sprite contains too many colours")
CapacityExceeded ==
    /\ pc = "scan"
    /\ y + 1 >= img.H
    /\ TooManyColours(InsertMissing(colourMap, ScanRowColours(img, y)))
    /\ Return(NilResult, "capacity")
    /\ UNCHANGED <<img, outPaletteTexture, spriteFile, paletteFile>>

\* The last row of the catalog pass, the map within capacity.
CapacityOk ==
    /\ pc = "scan"
    /\ y + 1 >= img.H
    /\ ~TooManyColours(InsertMissing(colourMap, ScanRowColours(img, y)))
    /\ colourMap' = InsertMissing(colourMap, ScanRowColours(img, y))
    /\ y' = y + 1
    /\ pc' = "list"
    /\ UNCHANGED <<img, outPaletteTexture, colourList, i, j, outSprite,
                   spriteFile, numColours, width, height, outPalette, palette,
                   paletteFile, ret, err>>

\* The first list and indices, then the entry into sort.Sort.
BuildList ==
    /\ pc = "list"
    /\ \E order \in IterationOrders(img, colourMap) :
          /\ colourMap' = AssignIndices(colourMap, order)
          /\ colourList' = order
    /\ i' = 1
    /\ j' = 1
    /\ pc' = "sort"
    /\ UNCHANGED <<img, outPaletteTexture, y, outSprite, spriteFile,
                   numColours, width, height, outPalette, palette, paletteFile,
                   ret, err>>

\* data.Less(j, j-1) holds: data.Swap(j, j-1); j--
SortSwap ==
    /\ pc = "sort"
    /\ i < Len(colourList)
    /\ j > 0
    /\ Less(colourMap, colourList, j, j - 1)
    /\ LET s == Swap(colourMap, colourList, j, j - 1)
       IN  /\ colourMap' = s.m
           /\ colourList' = s.l
    /\ j' = j - 1
    /\ UNCHANGED <<img, outPaletteTexture, pc, y, i, outSprite, spriteFile,
                   numColours, width, height, outPalette, palette, paletteFile,
                   ret, err>>

\* The inner loop ends: i++
SortAdvance ==
    /\ pc = "sort"
    /\ i < Len(colourList)
    /\ ~(j > 0 /\ Less(colourMap, colourList, j, j - 1))
    /\ i' = i + 1
    /\ j' = i + 1
    /\ UNCHANGED <<img, outPaletteTexture, pc, y, colourMap, colourList,
                   outSprite, spriteFile, numColours, width, height,
                   outPalette, palette, paletteFile, ret, err>>

\* sort.Sort returns; outSprite := image.NewNRGBA(bounds)
SortEnd ==
    /\ pc = "sort"
    /\ i >= Len(colourList)
    /\ outSprite' = [pos \in Positions(img.W, img.H) |-> ZeroPixel]
    /\ y' = 0
    /\ pc' = "encode"
    /\ UNCHANGED <<img, outPaletteTexture, colourMap, colourList, i, j,
                   spriteFile, numColours, width, height, outPalette, palette,
                   paletteFile, ret, err>>

\* One row of the index encoding pass.
EncodeRow ==
    /\ pc = "encode"
    /\ y < img.H
    /\ outSprite' = EncodeRowPixels(colourMap, img, y, outSprite)
    /\ y' = y + 1
    /\ UNCHANGED <<img, outPaletteTexture, pc, colourMap, colourList, i, j,
                   spriteFile, numColours, width, height, outPalette, palette,
                   paletteFile, ret, err>>

EncodeEnd ==
    /\ pc = "encode"
    /\ y >= img.H
    /\ pc' = "openSprite"
    /\ UNCHANGED <<img, outPaletteTexture, y, colourMap, colourList, i, j,
                   outSprite, spriteFile, numColours, width, height,
                   outPalette, palette, paletteFile, ret, err>>

\* os.OpenFile(outImagePath, O_CREATE|O_WRONLY|O_TRUNC) fails
OpenSpriteFail ==
    /\ pc = "openSprite"
    /\ Return(NilResult, "openSprite")
    /\ UNCHANGED <<img, outPaletteTexture, spriteFile, paletteFile>>

\* ... or creates / truncates the file
OpenSpriteOk ==
    /\ pc = "openSprite"
    /\ spriteFile' = "truncated"
    /\ pc' = "encodeSprite"
    /\ UNCHANGED <<img, outPaletteTexture, y, colourMap, colourList, i, j,
                   outSprite, numColours, width, height, outPalette, palette,
                   paletteFile, ret, err>>

\* png.Encode(of, outSprite) fails part-way; of.Close(); return nil, err
EncodeSpriteFail ==
    /\ pc = "encodeSprite"
    /\ spriteFile' = "partial"
    /\ Return(NilResult, "encodeSprite")
    /\ UNCHANGED <<img, outPaletteTexture, paletteFile>>

\* png.Encode succeeds; palette := make([]color.RGBA, 0, len(colourList))
EncodeSpriteOk ==
    /\ pc = "encodeSprite"
    /\ spriteFile' = "written"
    /\ palette' = <<>>
    /\ pc' = "palette"
    /\ UNCHANGED <<img, outPaletteTexture, y, colourMap, colourList, i, j,
                   outSprite, numColours, width, height, outPalette,
                   paletteFile, ret, err>>

\* len(outPaletteTexture) > 0: size and fill outPalette, append to palette
BuildPalette ==
    /\ pc = "palette"
    /\ Len(outPaletteTexture) > 0
    /\ numColours' = Len(colourList)
    /\ LET d == getPaletteImageDimensions(Len(colourList))
       IN  /\ width' = d.width
           /\ height' = d.height
           /\ outPalette' =
                  PaletteImage(colourMap, colourList, d.width, d.height)
    /\ palette' = PaletteSlice(colourMap, colourList)
    /\ pc' = "openPalette"
    /\ UNCHANGED <<img, outPaletteTexture, y, colourMap, colourList, i, j,
                   outSprite, spriteFile, paletteFile, ret, err>>

\* len(outPaletteTexture) = 0: the block is skipped; return palette, nil
SkipPalette ==
    /\ pc = "palette"
    /\ Len(outPaletteTexture) = 0
    /\ Return(Result(palette), "")
    /\ UNCHANGED <<img, outPaletteTexture, spriteFile, paletteFile>>

\* os.OpenFile(outPaletteTexture, ...) fails
OpenPaletteFail ==
    /\ pc = "openPalette"
    /\ Return(NilResult, "openPalette")
    /\ UNCHANGED <<img, outPaletteTexture, spriteFile, paletteFile>>

OpenPaletteOk ==
    /\ pc = "openPalette"
    /\ paletteFile' = "truncated"
    /\ pc' = "encodePalette"
    /\ UNCHANGED <<img, outPaletteTexture, y, colourMap, colourList, i, j,
                   outSprite, spriteFile, numColours, width, height,
                   outPalette, palette, ret, err>>

\* png.Encode(opf, outPalette) fails part-way
EncodePaletteFail ==
    /\ pc = "encodePalette"
    /\ paletteFile' = "partial"
    /\ Return(NilResult, "encodePalette")
    /\ UNCHANGED <<img, outPaletteTexture, spriteFile>>

\* png.Encode succeeds; return palette, nil
EncodePaletteOk ==
    /\ pc = "encodePalette"
    /\ paletteFile' = "written"
    /\ Return(Result(palette), "")
    /\ UNCHANGED <<img, outPaletteTexture, spriteFile>>

Next ==
    \/ ScanRow
    \/ CapacityExceeded
    \/ CapacityOk
    \/ BuildList
    \/ SortSwap
    \/ SortAdvance
    \/ SortEnd
    \/ EncodeRow
    \/ EncodeEnd
    \/ OpenSpriteFail
    \/ OpenSpriteOk
    \/ EncodeSpriteFail
    \/ EncodeSpriteOk
    \/ BuildPalette
    \/ SkipPalette
    \/ OpenPaletteFail
    \/ OpenPaletteOk
    \/ EncodePaletteFail
    \/ EncodePaletteOk

Spec == Init /\ [][Next]_vars

\* ------------------------------------------- the palette sizing, on its own
\* getPaletteImageDimensions(numColours) for every catalog size 1..65536
InitDims ==
    /\ img = Gradient(1)
    /\ outPaletteTexture = "palette.png"
    /\ pc = "dims"
    /\ numColours \in 1 .. Capacity
    /\ y = 0
    /\ colourMap = EmptyMap
    /\ colourList = <<>>
    /\ i = 0
    /\ j = 0
    /\ outSprite = <<>>
    /\ spriteFile = "untouched"
    /\ width = 0
    /\ height = 0
    /\ outPalette = <<>>
    /\ palette = <<>>
    /\ paletteFile = "untouched"
    /\ ret = NilResult
    /\ err = ""

CallDims ==
    /\ pc = "dims"
    /\ LET d == getPaletteImageDimensions(numColours)
       IN  /\ width' = d.width
           /\ height' = d.height
    /\ pc' = "dimsDone"
    /\ UNCHANGED <<img, outPaletteTexture, y, colourMap, colourList, i, j,
                   outSprite, spriteFile, numColours, outPalette, palette,
                   paletteFile, ret, err>>

NextDims == CallDims

SpecDims == InitDims /\ [][NextDims]_vars

\* ------------------------------------------------------------ properties
\* The distinct opaque canonical colours occurring in the source image.
ImageColours ==
    {colourTo8BitPaletteRGBA(PixelAt(img, pos)) :
        pos \in Positions(img.W, img.H)}

\* The list holds the catalog and is being, or has been, sorted.
Listed ==
    pc \in {"sort", "encode", "openSprite", "encodeSprite", "palette",
            "openPalette", "encodePalette"}

\* sort.Sort has returned.
Sorted == Listed /\ pc # "sort"

\* The encode pass has written every row of outSprite.
Encoded == Sorted /\ pc # "encode"

\* C1: round trip of the index encoding. For every source pixel the index
\* decoded from the index image as channel0 + 256 * channel1 (channel 2
\* being 0) selects, in the ordered palette, the opaque canonical colour of
\* that pixel, also for images with more than 256 distinct colours.
C1_IndexRoundTrip ==
    Encoded =>
        \A pos \in Positions(img.W, img.H) :
            LET px == outSprite[pos]
                index == px.R + 256 * px.G
            IN  /\ px.B = 0
                /\ index < Len(colourList)
                /\ colourMap[colourList[index + 1]].RGBA
                       = colourTo8BitPaletteRGBA(PixelAt(img, pos))

\* C2: alpha preservation. The alpha written to the index image is the
\* source pixel's own alpha scaled to 8 bits by colourTo8BitRGBA, not the
\* forced 255 of the palette variant.
C2_AlphaPreserved ==
    Encoded =>
        \A pos \in Positions(img.W, img.H) :
            outSprite[pos].A = colourTo8BitRGBA(PixelAt(img, pos)).A

\* C3: every successful call returns the full ordered palette, with or
\* without a palette output path: as many elements as the image has distinct
\* canonical colours, each of them once, in ascending catalog order.
C3_ReturnsOrderedPalette ==
    (pc = "done" /\ err = "") =>
        /\ ~ret.nil
        /\ Len(ret.slice) = Cardinality(ImageColours)
        /\ {ret.slice[k] : k \in 1 .. Len(ret.slice)} = ImageColours
        /\ \A k \in 1 .. Len(ret.slice) - 1 :
              LET m == [p \in ImageColours |-> NewUniqueColour(p)]
              IN  Less(m, ret.slice, k - 1, k)

\* C4: capacity limit. With more than 65536 distinct canonical colours the
\* call returns the capacity error and a nil palette and never gets to open,
\* create or write an output file; with 65536 or fewer there is no capacity
\* error.
C4_CapacityLimit ==
    /\ err = "capacity" =>
          /\ Cardinality(ImageColours) > Capacity
          /\ pc = "done"
          /\ ret.nil
    /\ (pc # "scan" /\ err # "capacity") =>
          Cardinality(ImageColours) <= Capacity
    /\ (pc = "scan" \/ err = "capacity") =>
          /\ spriteFile = "untouched"
          /\ paletteFile = "untouched"

C4_Witness ==
    /\ pc = "done"
    /\ err = "capacity"
    /\ ret.nil
    /\ img.W * img.H = Capacity + 1

\* C5: ordering determinism. Whatever order the colour map is iterated in
\* when the first list is built, sorting yields the list and the
\* colour-to-index assignment the run has reached; the list ascends by the
\* (hue, saturation, value) comparator.
C5_OrderingDeterministic ==
    Sorted =>
        /\ \A k \in 1 .. Len(colourList) - 1 :
              /\ Less(colourMap, colourList, k - 1, k)
              /\ ~Less(colourMap, colourList, k, k - 1)
        /\ Len(colourList) <= MaxPermN =>
              \A order \in IterationOrders(img, colourMap) :
                  LET r == RunSort(AssignIndices(colourMap, order), order, 1, 1)
                  IN  r.l = colourList /\ r.m = colourMap

C5_Witness ==
    /\ pc = "encode"
    /\ Len(colourList) >= 3
    /\ \E order \in IterationOrders(img, colourMap) :
          /\ order # colourList
          /\ order[1] = colourList[Len(colourList)]

\* C6: alpha collapsing. Two source pixels with the same non-premultiplied
\* RGB values and different alpha are normalized to the same canonical
\* colour, so they share one catalog entry and one index.
C6_AlphaCollapses ==
    Sorted =>
        \A p1, p2 \in Positions(img.W, img.H) :
            LET c1 == PixelAt(img, p1)
                c2 == PixelAt(img, p2)
            IN  (c1.R = c2.R /\ c1.G = c2.G /\ c1.B = c2.B)
                => /\ colourTo8BitPaletteRGBA(c1) = colourTo8BitPaletteRGBA(c2)
                   /\ colourMap[colourTo8BitPaletteRGBA(c1)].Index
                         = colourMap[colourTo8BitPaletteRGBA(c2)].Index

\* The smallest power of two >= v.
SmallestPowerOfTwo(v) ==
    CHOOSE w \in {2 ^ k : k \in 0 .. 17} : w >= v /\ (w = 1 \/ w \div 2 < v)

\* C7: palette sizing. For every N in 1..65536 the dimensions are
\* (nextPowerOfTwo(N), 1) when N <= 128, (256, 1) when 128 < N <= 256 and
\* (256, nextPowerOfTwo(ceil(N / 256))) above, nextPowerOfTwo(v) being the
\* smallest power of two >= v; so width * height >= N.
C7_PaletteSizing ==
    pc = "dimsDone" =>
        LET n == numColours
            rows == CHOOSE r \in 1 .. 256 : r * 256 >= n /\ (r - 1) * 256 < n
        IN  /\ nextPowerOfTwo(n) = SmallestPowerOfTwo(n)
            /\ n <= 128 => (width = SmallestPowerOfTwo(n) /\ height = 1)
            /\ (128 < n /\ n <= 256) => (width = 256 /\ height = 1)
            /\ n > 256 => (width = 256 /\ height = SmallestPowerOfTwo(rows))
            /\ width * height >= n
            /\ n = 1 => (width = 1 /\ height = 1)
            /\ n = 128 => (width = 128 /\ height = 1)
            /\ n = 129 => (width = 256 /\ height = 1)
            /\ n = 257 => (width = 256 /\ height = 2)
            /\ n = 1024 => (width = 256 /\ height = 4)

C7_Witness ==
    /\ pc = "dimsDone"
    /\ numColours = 257
    /\ width = 256
    /\ height = 2

\* C8, as stated: a run that ends in an error has written or truncated no
\* output file.
C8_AllOrNothing ==
    (pc = "done" /\ err # "") =>
        /\ spriteFile = "untouched"
        /\ paletteFile = "untouched"

\* C8, amended: a run that ends in the capacity error or in a failure to
\* open the index image has touched no output file; the index image file is
\* opened only once the index image buffer is complete, the palette file
\* only once the index image file is written and the palette buffer is
\* complete; a failed encode of the index image leaves its file partly
\* written, and a failure on the palette file leaves the index image file
\* written.
C8_OutputsAfterBuffers ==
    /\ (pc = "done" /\ err \in {"capacity", "openSprite"}) =>
          (spriteFile = "untouched" /\ paletteFile = "untouched")
    /\ spriteFile # "untouched" => (Encoded \/ pc = "done")
    /\ pc = "encodeSprite" =>
          \A pos \in Positions(img.W, img.H) :
              outSprite[pos] = EncodePixel(colourMap, PixelAt(img, pos))
    /\ paletteFile # "untouched" => spriteFile = "written"
    /\ pc = "encodePalette" =>
          /\ palette = PaletteSlice(colourMap, colourList)
          /\ \A n \in 0 .. Len(colourList) - 1 :
                outPalette[n] = colourMap[colourList[n + 1]].RGBA
    /\ (pc = "done" /\ err = "encodeSprite") =>
          (spriteFile = "partial" /\ paletteFile = "untouched")
    /\ (pc = "done" /\ err = "openPalette") =>
          (spriteFile = "written" /\ paletteFile = "untouched")
    /\ (pc = "done" /\ err = "encodePalette") =>
          (spriteFile = "written" /\ paletteFile = "partial")
    /\ (pc = "done" /\ err = "") =>
          /\ spriteFile = "written"
          /\ paletteFile =
                 IF Len(outPaletteTexture) > 0 THEN "written" ELSE "untouched"

C8_Witness ==
    /\ pc = "done"
    /\ err = "openPalette"
    /\ spriteFile = "written"
    /\ paletteFile = "untouched"

\* C9: catalog exactness. After the catalog pass the colour map holds
\* exactly the distinct opaque canonical colours of the image, each under
\* its own key, and the list holds each of them exactly once.
C9_CatalogExact ==
    (pc = "list" \/ Listed) =>
        /\ DOMAIN colourMap = ImageColours
        /\ \A p \in DOMAIN colourMap : p.A = 255 /\ colourMap[p].RGBA = p
        /\ Listed =>
              /\ Len(colourList) = Cardinality(ImageColours)
              /\ {colourList[k] : k \in 1 .. Len(colourList)} = ImageColours

C9_Witness ==
    /\ pc = "encode"
    /\ Len(colourList) = 3
    /\ img.W * img.H = 4
    /\ img.H = 2

\* C10: index consistency under sorting. From the first assignment on,
\* through every Swap of the sort, the entry at list position k has
\* Index = k; so the entries carry pairwise distinct indices covering
\* 0..N-1 and the Index reached through the colour map is the colour's list
\* position.
C10_IndexIsPosition ==
    Listed =>
        /\ \A k \in 1 .. Len(colourList) :
              colourMap[colourList[k]].Index = k - 1
        /\ {colourMap[p].Index : p \in DOMAIN colourMap}
               = 0 .. MapLen(colourMap) - 1

C10_Witness ==
    /\ pc = "sort"
    /\ i < Len(colourList)
    /\ j < i
    /\ j > 0

====
